---- MODULE Spec2Model ----
(***************************************************************************)
(* Model of the client-side sequential operation queue (AsyncQueue,        *)
(* utils/asyncQueue.ts) and of the queue-backed optimistic cart store      *)
(* (stores/cart.ts) of the MCP e-commerce demo.                            *)
(*                                                                         *)
(* JavaScript runs each synchronous segment to completion, so one action   *)
(* of the model is one segment: from a call or a resumed await up to the   *)
(* next await.  Operations are identified by their position in enqueue     *)
(* order (the QueuedOperation object); their id string is a field.         *)
(***************************************************************************)
EXTENDS Integers, Sequences, FiniteSets, TLC

\* ---------------------------------------------------------------- bounds
MaxOps == 3          \* operations enqueued on a queue of generic works
MaxCartOps == 2      \* cart mutations enqueued by the cart store
MaxQty == 1          \* largest quantity passed to addItem / updateQuantity
MaxSyncs == 1        \* syncCart requests of outside callers in flight
MaxToolActions == 1  \* add_to_cart tool actions sent by the chat store
MaxNow == 0          \* largest reading of Date.now()
ScenarioMaxQty == 2  \* largest quantity used in the end-to-end scenario
MaxMutations == 2    \* mutations run by the debounced cart store
MaxUIActions == 3    \* calls of the chat store's handleUIAction
MaxRetriesOpt == 3   \* largest maxRetries passed to retryWithBackoff
MaxBaseDelay == 2    \* largest baseDelay passed to retryWithBackoff
MaxDelayOpt == 5     \* largest maxDelay passed to retryWithBackoff
MaxChainOps == 3     \* cart mutations in a run without outside callers

\* ------------------------------------------------------------- constants
NULL == "null"
\* Chat store: the throttle windows and the age, in milliseconds, beyond
\* which an entry of recentActions is deleted.
ACTION_THROTTLE_MS == 100
CART_ACTION_THROTTLE_MS == 50
RecentActionMaxAge == 1000
NoId == "noid"
Ids == {"a", "b"}
\* An outcome names how a future is settled ("value" or "error") and the
\* operation whose work produced it; 0 stands for the queue's own
\* 'Operation cancelled - queue cleared' error.
Outcome(st, by) == [st |-> st, by |-> by]
Queued == Outcome("queued", 0)
Running == Outcome("running", 0)
Cancelled == Outcome("error", 0)
\* No retryWithBackoff call has been made.
NoRetry ==
    [st |-> "idle", maxRetries |-> 0, baseDelay |-> 0, maxDelay |-> 0,
     attempt |-> 0, lastError |-> 0, calls |-> 0, delays |-> <<>>,
     result |-> Outcome("none", 0)]
\* A cart line is identified by (productId, variantId); the model names
\* each such pair by one key.
Keys == {"A", "B"}
\* Line objects live on a heap, so that two arrays can share them.
Refs == 1..(2 * Cardinality(Keys))
FreeLine == [key |-> "none", qty |-> 0, icon |-> "none", color |-> "none"]
\* The product id of each key: one that the store's mapping of icons and
\* colors lists and one that it does not.
ProductId(key) ==
    CASE key = "A" -> "lebron-lakers-jersey"
      [] key = "B" -> "unlisted-product"
      [] OTHER -> "none"
\* PRODUCT_META, lines 9-16; the icons are named here.
PRODUCT_META ==
    [p \in {"lebron-lakers-jersey", "curry-warriors-jersey",
            "giannis-bucks-jersey", "luka-mavs-jersey",
            "tatum-celtics-jersey", "jordan-bulls-jersey"} |->
        CASE p = "lebron-lakers-jersey" -> [icon |-> "crown",
                                            color |-> "#552583"]
          [] p = "curry-warriors-jersey" -> [icon |-> "bow",
                                             color |-> "#1D428A"]
          [] p = "giannis-bucks-jersey" -> [icon |-> "flag-gr",
                                            color |-> "#00471B"]
          [] p = "luka-mavs-jersey" -> [icon |-> "basketball",
                                        color |-> "#00538C"]
          [] p = "tatum-celtics-jersey" -> [icon |-> "shamrock",
                                           color |-> "#007A33"]
          [] p = "jordan-bulls-jersey" -> [icon |-> "goat",
                                          color |-> "#CE1141"]]
\* The generic icon and color, lines 71 and 108-109.
GenericMeta == [icon |-> "package", color |-> "#3b82f6"]
\* A request to get_cart_state: sent, or answered by a snapshot, by a
\* response without a cart items array ("malformed") or by a failure.
Request(st, snap) == [st |-> st, snap |-> snap]
NoRequest == Request("none", <<>>)
Sent == Request("sent", <<>>)

VARIABLES
    queue,            \* AsyncQueue.queue: pending operations, in order
    isProcessing,     \* AsyncQueue.isProcessing
    activeOperation,  \* AsyncQueue.activeOperation: id string or NULL
    draining,         \* operations held in the local `operation` of a live
                      \* processQueue loop that is suspended at its await
    ops,              \* every QueuedOperation created so far, by index
    work,             \* per operation: queued, running, or its outcome
    future,           \* per operation: the resolve/reject calls it received
    items,            \* cart store: items.value, an array of line objects
    heap,             \* the line objects: key and quantity
    backup,           \* the local `backup` of the executing cart operation
    pendingOperations,\* cart store: pendingOperations.value
    phase,            \* executing cart operation: "idle", "mutate" (awaits
                      \* its server call), "sync" (awaits the follow-up
                      \* syncCart), "ended" (returned, loop not yet resumed)
    mutation,         \* its server call: "none", "sent", "ok", "fail"
    opSync,           \* the get_cart_state request of its follow-up syncCart
    itemsAtStart,     \* observation: items, by value, when the executing
                      \* cart operation began
    extSyncs,         \* get_cart_state requests of syncCart calls from outside
    serverCart,       \* the server's cart: a sequence of [key, qty]
    sessionId,        \* chat store: sessionId.value
    toolActions,      \* number of tool actions the chat store has sent
    now,              \* the last reading of Date.now()
    timers,           \* debounced store: the armed timers of debouncedSync,
                      \* a function from timer handle to the session id its
                      \* callback will pass to syncCart
    syncTimeout,      \* debounced store: syncTimeout, the handle of the last
                      \* timer armed, or 0 for null
    background,       \* debounced store: the tool requests sent and not
                      \* awaited, which the server has not handled yet
    mutations,        \* number of mutations the debounced store has run
    processingActions,\* chat store: processingActions, a set of action keys
    recentActions,    \* chat store: recentActions, from action key to the
                      \* time the action was last accepted
    uiCalls,          \* handleUIAction calls suspended at their await
    uiResults,        \* observation: what each handleUIAction call that
                      \* has returned gave back, in order of return
    uiNow,            \* the last reading of Date.now() by handleUIAction
    retry             \* a retryWithBackoff call: its options, its loop
                      \* variables `attempt` and `lastError`, where it stands,
                      \* and, as observations, the invocations of the
                      \* operation so far, the delays waited and the result

queueVars == <<queue, isProcessing, activeOperation, draining, ops, work,
               future>>
storeVars == <<items, heap, backup, pendingOperations, phase, mutation,
               opSync, itemsAtStart>>
debounceVars == <<timers, syncTimeout, background, mutations>>
chatVars == <<processingActions, recentActions, uiCalls, uiResults, uiNow>>
envVars == <<extSyncs, serverCart, sessionId, toolActions, now, timers,
             syncTimeout, background, mutations, processingActions,
             recentActions, uiCalls, uiResults, uiNow, retry>>
cartVars == <<items, heap, backup, pendingOperations, phase, mutation,
              opSync, itemsAtStart, extSyncs, serverCart, sessionId,
              toolActions, now, timers, syncTimeout, background, mutations,
              processingActions, recentActions, uiCalls, uiResults, uiNow,
              retry>>
vars == <<queue, isProcessing, activeOperation, draining, ops, work, future,
          items, heap, backup, pendingOperations, phase, mutation, opSync,
          itemsAtStart, extSyncs, serverCart, sessionId, toolActions, now,
          timers, syncTimeout, background, mutations, processingActions,
          recentActions, uiCalls, uiResults, uiNow, retry>>

\* ------------------------------------------------- cart store, helpers

Range(s) == {s[i] : i \in 1..Len(s)}

\* items read by value: the sequence of [key, qty] a reader sees.
View(its, h) ==
    [i \in 1..Len(its) |-> [key |-> h[its[i]].key, qty |-> h[its[i]].qty]]

\* Variant: no generic icon and color for a product id that is not listed.
MetaWithoutFallback(productId) ==
    IF productId \in DOMAIN PRODUCT_META THEN PRODUCT_META[productId]
    ELSE [icon |-> "undefined", color |-> "undefined"]

\* `PRODUCT_META[productId] || { icon: ..., color: ... }` (line 71, and
\* field by field in lines 108-109).
Meta(productId) ==
    IF productId \in DOMAIN PRODUCT_META THEN PRODUCT_META[productId]
    ELSE GenericMeta

\* addItem, lines 105-110: the line object of the optimistic update.
NewItem(key, qty) ==
    [key |-> key, qty |-> qty, icon |-> Meta(ProductId(key)).icon,
     color |-> Meta(ProductId(key)).color]

\* syncCart, lines 70-85: one line of the snapshot mapped to a cart line.
MapLine(l) ==
    [key |-> l.key, qty |-> l.qty, icon |-> Meta(ProductId(l.key)).icon,
     color |-> Meta(ProductId(l.key)).color]

\* A line object not referenced from the given set.
FreshRef(used) == CHOOSE r \in Refs \ used : \A x \in Refs \ used : r <= x

\* Objects no array refers to any more are dropped, and the live ones are
\* renumbered in the order items and then backup reach them: object
\* addresses carry no meaning.
Normalize(its, bk, h) ==
    LET seq == its \o SelectSeq(bk, LAMBDA r : r \notin Range(its))
        Pos(r) == CHOOSE i \in 1..Len(seq) : seq[i] = r
    IN [items |-> [i \in 1..Len(its) |-> i],
        backup |-> [i \in 1..Len(bk) |-> Pos(bk[i])],
        heap |-> [r \in Refs |-> IF r <= Len(seq) THEN h[seq[r]]
                                 ELSE FreeLine]]

\* Variant: the comparison never matches.
FindIndexNoMatch(its, h, key) == 0

\* Array.findIndex / Array.find by (productId, variantId) or by line id,
\* which is `cart-${productId}-${variantId}`: 0 stands for "not found".
FindIndex(its, h, key) ==
    IF \E i \in 1..Len(its) : h[its[i]].key = key
    THEN CHOOSE i \in 1..Len(its) :
            /\ h[its[i]].key = key
            /\ \A j \in 1..(i - 1) : h[its[j]].key # key
    ELSE 0

\* items.value.filter(i => i.id !== itemId)
FilterOut(its, h, key) == SelectSeq(its, LAMBDA r : h[r].key # key)

\* `[...items.value]`: a new array holding the same line objects.
BackupOf(its) == its

\* Variant: addItem always pushes a new line.
OptimisticAddAlwaysPushes(its, h, key, qty, used) ==
    LET newItem == FreshRef(used) IN
    [items |-> Append(its, newItem),
     heap |-> [h EXCEPT ![newItem] = NewItem(key, qty)]]

\* addItem, lines 105-120.
OptimisticAdd(its, h, key, qty, used) ==
    LET existingIndex == FindIndex(its, h, key) IN
    IF existingIndex > 0
    THEN [items |-> its,
          heap |-> [h EXCEPT ![its[existingIndex]].qty = @ + qty]]
    ELSE LET newItem == FreshRef(used) IN
         [items |-> Append(its, newItem),
          heap |-> [h EXCEPT ![newItem] = NewItem(key, qty)]]

\* removeItem, line 165.
OptimisticRemove(its, h, key) == [items |-> FilterOut(its, h, key), heap |-> h]

\* updateQuantity, lines 206-213.
OptimisticUpdate(its, h, key, qty) ==
    IF qty <= 0
    THEN [items |-> FilterOut(its, h, key), heap |-> h]
    ELSE LET idx == FindIndex(its, h, key) IN
         IF idx > 0
         THEN [items |-> its, heap |-> [h EXCEPT ![its[idx]].qty = qty]]
         ELSE [items |-> its, heap |-> h]

\* clearCart, line 251.
OptimisticClear(its, h) == [items |-> <<>>, heap |-> h]

Optimistic(rec, its, h, used) ==
    CASE rec.kind = "add" -> OptimisticAdd(its, h, rec.key, rec.qty, used)
      [] rec.kind = "remove" -> OptimisticRemove(its, h, rec.key)
      [] rec.kind = "update" -> OptimisticUpdate(its, h, rec.key, rec.qty)
      [] rec.kind = "clear" -> OptimisticClear(its, h)

\* The operation id built by the store from the line and Date.now().
CartOperationId(kind, key, t) ==
    IF kind = "clear" THEN "clear-" \o ToString(t)
    ELSE kind \o "-" \o key \o "-" \o ToString(t)

\* Variant: the catch block does not restore items.
RollbackMissing(its, bk) == its

\* `items.value = backup`
Rollback(its, bk) == bk

\* Variant: the id is deleted at the end of the try block, not in finally.
PendingAfterSettleOnSuccess(pend, id, outcome) ==
    IF outcome = "ok" THEN pend \ {id} ELSE pend

\* Variant: the finally block calls syncCart before it deletes the id.
PendingAfterSettleKept(pend, id, outcome) == pend

\* The finally block, line 144 (183, 231, 269):
\* pendingOperations.value.delete(operationId), whatever the outcome of the
\* server call was.
PendingAfterSettle(pend, id, outcome) == pend \ {id}

\* Variant: only the missing session id makes syncCart return early.
SyncSkipsOnlyWithoutSession(sid, pend) == sid = NULL

\* syncCart, lines 48-57: the two early returns.
SyncSkipsAtEntry(sid, pend) == sid = NULL \/ Cardinality(pend) > 0

\* syncCart, lines 46-65, up to its await: the get_cart_state requests in
\* flight after the call.
SyncCartCall(sid, pend, reqs) ==
    IF SyncSkipsAtEntry(sid, pend) THEN reqs ELSE Append(reqs, Sent)

\* Variant: the second test of pendingOperations is missing.
SnapshotGuardNone(pend) == TRUE

\* syncCart, line 69: the snapshot is applied only if nothing is pending.
SnapshotGuard(pend) == Cardinality(pend) = 0

\* syncCart, lines 70-86: the snapshot mapped to new line objects.
RECURSIVE MapSnapshot(_, _, _)
MapSnapshot(snap, h, used) ==
    IF snap = <<>>
    THEN [items |-> <<>>, heap |-> h]
    ELSE LET r == FreshRef(used)
             rest == MapSnapshot(Tail(snap), h, used \cup {r})
         IN [items |-> <<r>> \o rest.items,
             heap |-> [rest.heap EXCEPT ![r] = MapLine(Head(snap))]]

\* Variant: a response without an items array is read as an empty cart
\* (`snapshot?.items ?? []`), and so is a failed fetch.
ApplyResponseLenient(req, its, h, pend, bk) ==
    IF SnapshotGuard(pend)
    THEN MapSnapshot(req.snap, h, Range(bk))
    ELSE [items |-> its, heap |-> h]

\* Variant: the snapshot is assigned without looking at pendingOperations.
ApplyResponseUnguarded(req, its, h, pend, bk) ==
    IF req.st = "snapshot"
    THEN MapSnapshot(req.snap, h, Range(bk))
    ELSE [items |-> its, heap |-> h]

\* syncCart, lines 59-91: the catch block logs the failure of the fetch and
\* returns; nothing is thrown to the caller of syncCart.
SyncCartThrows(req) == FALSE

\* syncCart, lines 66-91, once the response is there.
ApplyResponse(req, its, h, pend, bk) ==
    IF req.st = "snapshot" /\ SnapshotGuard(pend)
    THEN MapSnapshot(req.snap, h, Range(bk))
    ELSE [items |-> its, heap |-> h]

\* The body of a cart operation up to its await of the server call:
\* addItem 97-132, removeItem 157-173, updateQuantity 198-221,
\* clearCart 243-259.
CartStart(rec) ==
    LET bk == BackupOf(items)
        opt == Optimistic(rec, items, heap, Range(items) \cup Range(bk))
        n == Normalize(opt.items, bk, opt.heap)
    IN /\ backup' = n.backup
       /\ pendingOperations' = pendingOperations \cup {rec.id}
       /\ items' = n.items
       /\ heap' = n.heap
       /\ phase' = "mutate"
       /\ mutation' = "sent"
       /\ opSync' = NoRequest
       /\ itemsAtStart' = View(items, heap)

\* The step starts no cart operation and ends none.
NoCartStart == UNCHANGED storeVars

\* The loop takes over from an ended cart operation and starts none.
NoCartWork ==
    /\ phase' = "idle"
    /\ mutation' = "none"
    /\ opSync' = NoRequest
    /\ itemsAtStart' = <<>>
    /\ UNCHANGED <<items, heap, backup, pendingOperations>>

\* ------------------------------------------------------------ AsyncQueue

\* The outcome of a work that has settled: what it returned or raised.
Settled(w) == w.st \in {"value", "error"}

\* enqueue, line 26: the caller's id, or a generated unique token.
OperationId(id, n) == IF id = NoId THEN "op-" \o ToString(n) ELSE id

\* A finished or cancelled QueuedOperation: its closure is released.
Released(rec) ==
    [id |-> "", kind |-> rec.kind, key |-> "none", qty |-> 0, sid |-> NULL]

\* Variant: enqueue only pushes and never starts the drain loop.
EnqueueStartsDrainNever(isProc) == FALSE

\* enqueue, line 41: start processing if not already running.
EnqueueStartsDrain(isProc) == ~isProc

\* processQueue, line 51: the entry guard (negated: TRUE means "go on").
ProcessQueueGuard(isProc, q) == ~(isProc \/ Len(q) = 0)

\* Variant: pop() instead of shift() takes the most recent operation.
ShiftIndexLast(q) == Len(q)

\* processQueue, line 59: queue.shift() takes the head.
ShiftIndex(q) == 1

Shifted(q) == q[ShiftIndex(q)]

AfterShift(q) ==
    [i \in 1..(Len(q) - 1) |-> IF i < ShiftIndex(q) THEN q[i] ELSE q[i + 1]]

\* Variant: the call of the work is not awaited.
AwaitDoneNoWait(w) == TRUE

\* processQueue, line 64: the loop is suspended until the work has settled.
AwaitDone(w) == Settled(w)

\* Variant: no catch, a rejection leaves the loop.
LoopContinuesUnlessFailed(q, outcome) == Len(q) > 0 /\ outcome.st # "error"

\* Variant: `if` instead of `while`, the loop runs a single operation.
LoopContinuesNever(q, outcome) == FALSE

\* processQueue, line 58: after try/catch/finally the loop tests the queue
\* again, whatever the outcome of the operation was.
LoopContinues(q, outcome) == Len(q) > 0

\* Variant: the pending sequence is not emptied.
ClearedQueueKept(q) == q

\* Variant: clear rejects every pending operation and leaves the oldest one
\* in the pending sequence.
ClearedQueueButHead(q) == IF q = <<>> THEN q ELSE <<Head(q)>>

\* clear, line 98: the pending sequence is replaced by an empty one.
ClearedQueue(q) == <<>>

\* Variant: clear also rejects the operation being executed.
ClearRejectsActiveToo(q) == Range(q) \cup draining

\* clear, lines 95-97: every operation still in the queue is rejected.
ClearRejects(q) == Range(q)

\* processQueue, line 64: operation.operation() runs the work up to its
\* first await.
InvokeWork(op) ==
    IF ops'[op].kind = "work" THEN NoCartWork ELSE CartStart(ops'[op])

\* processQueue, lines 59-64: one iteration up to the await.
RunHead(q, d, w) ==
    LET op == Shifted(q) IN
    /\ queue' = AfterShift(q)
    /\ activeOperation' = ops'[op].id
    /\ draining' = d \cup {op}
    /\ work' = [w EXCEPT ![op] = Running]
    /\ InvokeWork(op)

\* Variant: the loop does not raise the flag when it starts.
ProcessingFlagNotSet == FALSE

\* processQueue, line 55: `this.isProcessing = true`.
ProcessingFlagSet == TRUE

\* processQueue, lines 50-64, called with the queue as it is after the push.
ProcessQueue(q, w) ==
    IF ProcessQueueGuard(isProcessing, q)
    THEN /\ isProcessing' = ProcessingFlagSet
         /\ RunHead(q, draining, w)
    ELSE /\ queue' = q
         /\ work' = w
         /\ UNCHANGED <<isProcessing, activeOperation, draining>>
         /\ NoCartStart

\* enqueue, lines 25-45.
EnqueueOp(rec, max) ==
    /\ Len(ops) < max
    /\ ops' = Append(ops, rec)
    /\ future' = Append(future, <<>>)
    /\ IF EnqueueStartsDrain(isProcessing)
       THEN ProcessQueue(Append(queue, Len(ops) + 1), Append(work, Queued))
       ELSE /\ queue' = Append(queue, Len(ops) + 1)
            /\ work' = Append(work, Queued)
            /\ UNCHANGED <<isProcessing, activeOperation, draining>>
            /\ NoCartStart

Enqueue ==
    \E id \in Ids \cup {NoId} :
        /\ EnqueueOp([id |-> OperationId(id, Len(ops) + 1), kind |-> "work",
                      key |-> "none", qty |-> 0, sid |-> NULL], MaxOps)
        /\ UNCHANGED envVars

\* The work of a running generic operation resolves or rejects.
WorkSettles ==
    \E op \in draining, o \in {"value", "error"} :
        /\ ops[op].kind = "work"
        /\ work[op] = Running
        /\ work' = [work EXCEPT ![op] = Outcome(o, op)]
        /\ UNCHANGED <<queue, isProcessing, activeOperation, draining, ops,
                       future>>
        /\ UNCHANGED cartVars

\* Variant: no finally block, activeOperation keeps the id.
ActiveAfterOperationKept(id) == id

\* processQueue, lines 70-72: `finally { this.activeOperation = null }`.
ActiveAfterOperation(id) == NULL

\* processQueue, lines 65-76: the continuation of the await.
DrainResume ==
    \E op \in draining :
        /\ AwaitDone(work[op])
        /\ ops' = [ops EXCEPT ![op] = Released(@)]
        /\ future' = [future EXCEPT ![op] = Append(@, work[op])]
        /\ IF LoopContinues(queue, work[op])
           THEN /\ RunHead(queue, draining \ {op}, work)
                /\ UNCHANGED isProcessing
           ELSE /\ isProcessing' = FALSE
                /\ activeOperation' = ActiveAfterOperation(activeOperation)
                /\ draining' = draining \ {op}
                /\ UNCHANGED <<queue, work>>
                /\ NoCartWork
        /\ UNCHANGED envVars

\* Variant: clear flips the flag of the drain loop.
FlagAfterClearFlipped(isProc) == ~isProc

\* Variant: clear also lowers the flag of the drain loop.
FlagAfterClearLowered(isProc) == FALSE

\* clear, lines 93-100: no statement of clear assigns isProcessing.
FlagAfterClear(isProc) == isProc

\* clear, lines 93-100.
Clear ==
    /\ future' = [op \in DOMAIN future |->
                    IF op \in ClearRejects(queue)
                    THEN Append(future[op], Cancelled) ELSE future[op]]
    /\ queue' = ClearedQueue(queue)
    /\ ops' = [op \in DOMAIN ops |->
                 IF op \in Range(queue) /\ op \notin Range(queue')
                 THEN Released(ops[op]) ELSE ops[op]]
    /\ isProcessing' = FlagAfterClear(isProcessing)
    /\ UNCHANGED <<activeOperation, draining, work>>
    /\ UNCHANGED cartVars

Init ==
    /\ queue = <<>>
    /\ isProcessing = FALSE
    /\ activeOperation = NULL
    /\ draining = {}
    /\ ops = <<>>
    /\ work = <<>>
    /\ future = <<>>
    /\ items = <<>>
    /\ heap = [r \in Refs |-> FreeLine]
    /\ backup = <<>>
    /\ pendingOperations = {}
    /\ phase = "idle"
    /\ mutation = "none"
    /\ opSync = NoRequest
    /\ itemsAtStart = <<>>
    /\ extSyncs = <<>>
    /\ serverCart = <<>>
    /\ sessionId = NULL
    /\ toolActions = 0
    /\ now = 0
    /\ timers = {}
    /\ syncTimeout = 0
    /\ background = <<>>
    /\ mutations = 0
    /\ processingActions = {}
    /\ recentActions = <<>>
    /\ uiCalls = <<>>
    /\ uiResults = <<>>
    /\ uiNow = 0
    /\ retry = NoRetry

QueueNext == Enqueue \/ WorkSettles \/ DrainResume \/ Clear

QueueSpec == Init /\ [][QueueNext]_vars

LiveQueueSpec ==
    QueueSpec /\ WF_vars(WorkSettles) /\ WF_vars(DrainResume)

\* ------------------------------------------------------------ the server

\* The tool endpoint applied to the server's cart.
ServerAdd(cart, key, qty) ==
    IF \E i \in 1..Len(cart) : cart[i].key = key
    THEN [i \in 1..Len(cart) |->
            IF cart[i].key = key
            THEN [key |-> key, qty |-> cart[i].qty + qty] ELSE cart[i]]
    ELSE Append(cart, [key |-> key, qty |-> qty])

ServerRemove(cart, key) == SelectSeq(cart, LAMBDA l : l.key # key)

ServerSet(cart, key, qty) ==
    IF qty <= 0
    THEN ServerRemove(cart, key)
    ELSE [i \in 1..Len(cart) |->
            IF cart[i].key = key THEN [key |-> key, qty |-> qty] ELSE cart[i]]

ServerApply(cart, rec) ==
    CASE rec.kind = "add" -> ServerAdd(cart, rec.key, rec.qty)
      [] rec.kind = "remove" -> ServerRemove(cart, rec.key)
      [] rec.kind = "update" -> ServerSet(cart, rec.key, rec.qty)
      [] rec.kind = "clear" -> <<>>

\* The server answers a get_cart_state request.
Answer(kind) == Request(kind, IF kind = "snapshot" THEN serverCart ELSE <<>>)

\* ------------------------------------------------------------ cart store

\* A continuation of the drain loop is waiting in the microtask queue: it
\* runs before any timer, event or network callback does, and before the
\* server gets anything done.
MicrotaskPending == \E op \in draining : Settled(work[op])

CartOp(op) == ops[op].kind # "work"

\* Date.now() as read by a call: not before the last reading.
Later == {t \in {now, now + 1} : t <= MaxNow}

CartRecord(kind, key, qty, t) ==
    [id |-> CartOperationId(kind, key, t), kind |-> kind, key |-> key,
     qty |-> qty, sid |-> sessionId]

\* addItem, lines 93-148, up to the return of enqueue.  item.quantity is a
\* number the store does not validate: 0 stands for the values below 1.
AddItemCall(key, qty, t, max) ==
    /\ EnqueueOp(CartRecord("add", key, qty, t), max)
    /\ now' = t
    /\ UNCHANGED <<extSyncs, serverCart, sessionId, toolActions,
                   debounceVars, chatVars, retry>>

AddItem ==
    \E key \in Keys, qty \in 0..MaxQty, t \in Later :
        AddItemCall(key, qty, t, MaxCartOps)

\* removeItem, lines 151-152: `if (!item) return`.
RemoveReturnsEarly(its, h, key) == FindIndex(its, h, key) = 0

\* removeItem, lines 150-189, up to the return of enqueue or to the early
\* return, which changes nothing.
RemoveItemCall(key, t, max) ==
    IF RemoveReturnsEarly(items, heap, key)
    THEN UNCHANGED vars
    ELSE /\ EnqueueOp(CartRecord("remove", key, 0, t), max)
         /\ now' = t
         /\ UNCHANGED <<extSyncs, serverCart, sessionId, toolActions,
                   debounceVars, chatVars, retry>>

RemoveItem ==
    \E key \in Keys, t \in Later : RemoveItemCall(key, t, MaxCartOps)

\* Variant: the test of the line's presence is missing.
UpdateReturnsEarlyNever(its, h, key) == FALSE

\* updateQuantity, lines 192-193: `if (!item) return`.
UpdateReturnsEarly(its, h, key) == FindIndex(its, h, key) = 0

\* updateQuantity, lines 191-237, up to the return of enqueue or to the
\* early return, which changes nothing.
UpdateQuantityCall(key, qty, t, max) ==
    IF UpdateReturnsEarly(items, heap, key)
    THEN UNCHANGED vars
    ELSE /\ EnqueueOp(CartRecord("update", key, qty, t), max)
         /\ now' = t
         /\ UNCHANGED <<extSyncs, serverCart, sessionId, toolActions,
                   debounceVars, chatVars, retry>>

UpdateQuantity ==
    \E key \in Keys, qty \in 0..MaxQty, t \in Later :
        UpdateQuantityCall(key, qty, t, MaxCartOps)

\* clearCart, lines 239-275, up to the return of enqueue.
ClearCart ==
    \E t \in Later :
        /\ EnqueueOp(CartRecord("clear", "none", 0, t), MaxCartOps)
        /\ now' = t
        /\ UNCHANGED <<extSyncs, serverCart, sessionId, toolActions,
                   debounceVars, chatVars, retry>>

\* The server handles the tool request of the executing cart operation: it
\* applies it or not, and the call succeeds or fails.
ServerHandles(applied, resp) ==
    \E op \in draining :
        /\ CartOp(op)
        /\ phase = "mutate"
        /\ mutation = "sent"
        /\ ~MicrotaskPending
        /\ mutation' = resp
        /\ serverCart' = IF applied THEN ServerApply(serverCart, ops[op])
                         ELSE serverCart
        /\ UNCHANGED <<queueVars, items, heap, backup, pendingOperations,
                       phase, opSync, itemsAtStart, extSyncs, sessionId,
                       toolActions, now, debounceVars, chatVars, retry>>

ServerHandlesMutation ==
    \E applied \in BOOLEAN, resp \in {"ok", "fail"} :
        ServerHandles(applied, resp)

\* The cart operation has run to its end: its promise settles with what
\* the try block returned or threw.
Ends(op, req) ==
    /\ work' = [work EXCEPT ![op] =
                  Outcome(IF mutation = "ok" /\ ~SyncCartThrows(req)
                          THEN "value" ELSE "error", op)]
    /\ phase' = "ended"

\* Variant: the finally block calls syncCart without awaiting it.
ResyncAwaitedNot == FALSE

\* The finally block, line 145 (184, 232, 270): `await syncCart(sessionId)`.
ResyncAwaited == TRUE

\* The await of the server call resumes: return or catch, then finally,
\* up to the await inside syncCart or, if syncCart returns at once, to the
\* end of the operation (addItem 134-146 and the like, syncCart 46-65).
MutationResponse ==
    \E op \in draining :
        /\ CartOp(op)
        /\ phase = "mutate"
        /\ mutation \in {"ok", "fail"}
        /\ ~MicrotaskPending
        /\ LET its == IF mutation = "fail" THEN Rollback(items, backup)
                      ELSE items
               pend == PendingAfterSettle(pendingOperations, ops[op].id,
                                          mutation)
               n == Normalize(its, <<>>, heap)
           IN /\ items' = n.items
              /\ heap' = n.heap
              /\ backup' = <<>>
              /\ pendingOperations' = pend
              /\ itemsAtStart' = IF mutation = "fail" THEN itemsAtStart
                                 ELSE <<>>
              /\ IF SyncSkipsAtEntry(ops[op].sid, pend)
                 THEN /\ Ends(op, NoRequest)
                      /\ UNCHANGED opSync
                 ELSE /\ opSync' = Sent
                      /\ IF ResyncAwaited
                         THEN phase' = "sync" /\ UNCHANGED work
                         ELSE Ends(op, NoRequest)
        /\ UNCHANGED <<queue, isProcessing, activeOperation, draining, ops,
                       future, mutation, envVars>>

OpSyncServer ==
    \E kind \in {"snapshot", "malformed", "error"} :
        /\ opSync = Sent
        /\ ~MicrotaskPending
        /\ opSync' = Answer(kind)
        /\ UNCHANGED <<queueVars, items, heap, backup, pendingOperations,
                       phase, mutation, itemsAtStart, envVars>>

\* The await inside the follow-up syncCart resumes (lines 66-91) and the
\* operation ends.
OpSyncResponse ==
    \E op \in draining :
        /\ CartOp(op)
        /\ phase = "sync"
        /\ opSync.st \in {"snapshot", "malformed", "error"}
        /\ ~MicrotaskPending
        /\ LET res == ApplyResponse(opSync, items, heap, pendingOperations,
                                    backup)
               n == Normalize(res.items, backup, res.heap)
           IN /\ items' = n.items
              /\ heap' = n.heap
              /\ backup' = n.backup
        /\ Ends(op, opSync)
        /\ UNCHANGED <<queue, isProcessing, activeOperation, draining, ops,
                       future, pendingOperations, mutation, opSync,
                       itemsAtStart, envVars>>

\* syncCart called by the cart sidebar, the UI renderer or the chat store,
\* with the chat store's session id or with none (lines 46-65).  A call
\* that returns early changes nothing.
ExtSyncCall ==
    \E sid \in {sessionId, NULL} :
        /\ Len(extSyncs) < MaxSyncs
        /\ extSyncs' = SyncCartCall(sid, pendingOperations, extSyncs)
        /\ UNCHANGED <<queueVars, storeVars, serverCart, sessionId,
                       toolActions, now, debounceVars, chatVars, retry>>

ExtSyncServer ==
    \E i \in 1..Len(extSyncs), kind \in {"snapshot", "malformed", "error"} :
        /\ extSyncs[i] = Sent
        /\ ~MicrotaskPending
        /\ extSyncs' = [extSyncs EXCEPT ![i] = Answer(kind)]
        /\ UNCHANGED <<queueVars, storeVars, serverCart, sessionId,
                       toolActions, now, debounceVars, chatVars, retry>>

Without(s, i) == [j \in 1..(Len(s) - 1) |-> IF j < i THEN s[j] ELSE s[j + 1]]

\* The await of such a syncCart resumes (lines 66-91).
ExtSyncResponse ==
    \E i \in 1..Len(extSyncs) :
        /\ extSyncs[i].st \in {"snapshot", "malformed", "error"}
        /\ ~MicrotaskPending
        /\ LET res == ApplyResponse(extSyncs[i], items, heap,
                                    pendingOperations, backup)
               n == Normalize(res.items, backup, res.heap)
           IN /\ items' = n.items
              /\ heap' = n.heap
              /\ backup' = n.backup
        /\ extSyncs' = Without(extSyncs, i)
        /\ UNCHANGED <<queueVars, pendingOperations, phase, mutation, opSync,
                       itemsAtStart, serverCart, sessionId, toolActions, now,
                       debounceVars, chatVars, retry>>

\* The chat store sends an add_to_cart tool action straight to the server
\* (handleUIAction); the cart store is not involved.
ChatToolAction ==
    \E key \in Keys :
        /\ toolActions < MaxToolActions
        /\ ~MicrotaskPending
        /\ toolActions' = toolActions + 1
        /\ serverCart' = ServerAdd(serverCart, key, 1)
        /\ UNCHANGED <<queueVars, storeVars, extSyncs, sessionId, now,
                       debounceVars, chatVars, retry>>

\* The chat store learns its session id from the first chat response.
EstablishSession ==
    /\ sessionId = NULL
    /\ ~MicrotaskPending
    /\ sessionId' = "s1"
    /\ UNCHANGED <<queueVars, storeVars, extSyncs, serverCart, toolActions,
                   now, debounceVars, chatVars, retry>>

CartNext ==
    \/ AddItem \/ RemoveItem \/ UpdateQuantity \/ ClearCart
    \/ ServerHandlesMutation \/ MutationResponse
    \/ OpSyncServer \/ OpSyncResponse
    \/ ExtSyncCall \/ ExtSyncServer \/ ExtSyncResponse
    \/ ChatToolAction \/ EstablishSession
    \/ DrainResume \/ Clear

CartSpec == Init /\ [][CartNext]_vars

\* The runs of the queue-backed store in which the outside callers of
\* syncCart (the mounted sidebar, the chat store at start-up) call it only
\* before the first cart mutation is made.
EarlySyncCall == ops = <<>> /\ ExtSyncCall

EarlySyncNext ==
    \/ AddItem \/ RemoveItem \/ UpdateQuantity \/ ClearCart
    \/ ServerHandlesMutation \/ MutationResponse
    \/ OpSyncServer \/ OpSyncResponse
    \/ EarlySyncCall \/ ExtSyncServer \/ ExtSyncResponse
    \/ ChatToolAction \/ EstablishSession
    \/ DrainResume \/ Clear

EarlySyncSpec == Init /\ [][EarlySyncNext]_vars

\* The runs of the queue-backed store in which nothing but the cart's own
\* mutations and their follow-up resyncs touches the cart: no syncCart call
\* from outside the queue, no chat tool action, no clear().
ChainAddItem ==
    \E key \in Keys, qty \in 0..MaxQty, t \in Later :
        AddItemCall(key, qty, t, MaxChainOps)

ChainRemoveItem ==
    \E key \in Keys, t \in Later : RemoveItemCall(key, t, MaxChainOps)

ChainUpdateQuantity ==
    \E key \in Keys, qty \in 0..MaxQty, t \in Later :
        UpdateQuantityCall(key, qty, t, MaxChainOps)

ChainNext ==
    \/ ChainAddItem \/ ChainRemoveItem \/ ChainUpdateQuantity
    \/ ServerHandlesMutation \/ MutationResponse
    \/ OpSyncServer \/ OpSyncResponse
    \/ EstablishSession \/ DrainResume

ChainSpec == Init /\ [][ChainNext]_vars

\* ------------------------------------------- the debounced cart store
\* The other cart store of the repository (the one the cart sidebar's quote
\* calls belong to): its mutations do not go through the queue.  Each runs
\* to its end in one synchronous segment: it sends its tool request without
\* awaiting it and arms a timer for a later resync (debouncedSync).  Its
\* syncCart is, line for line, the syncCart of the queue-backed store.

\* Variant: the previous timer is not cleared.
ClearTimeoutMissing(tm, handle) == tm

\* debouncedSync, line 78: `if (syncTimeout) clearTimeout(syncTimeout)`;
\* clearing a timer that has fired, or no timer, does nothing.
ClearTimeout(tm, handle) == {t \in tm : t.h # handle}

\* debouncedSync, lines 77-84: the call; setTimeout returns a new handle.
DebouncedSync(sid) ==
    /\ timers' = ClearTimeout(timers, syncTimeout)
                    \cup {[h |-> syncTimeout + 1, sid |-> sid]}
    /\ syncTimeout' = syncTimeout + 1

\* What a mutation of the debounced store returns to its caller, right
\* after it has sent its tool request (lines 219, 258, 299, 331).
DebouncedResult(rec) == "success"

\* Variant: the catch handler of the tool request restores the backup.
BackgroundCatchRollsBack(its, bk) == bk

\* The catch handler of the tool request (lines 213-216 and the like): it
\* logs a warning.
BackgroundCatch(its, bk) == its

\* The body of a mutation of the debounced store: addItem 177-231,
\* removeItem 237-265, updateQuantity 271-306, clearCart 309-338.
DebouncedMutation(rec) ==
    LET bk == BackupOf(items)
        opt == Optimistic(rec, items, heap, Range(items) \cup Range(bk))
        n == Normalize(opt.items, bk, opt.heap)
    IN /\ mutations < MaxMutations
       /\ mutations' = mutations + 1
       /\ backup' = n.backup
       /\ items' = n.items
       /\ heap' = n.heap
       /\ pendingOperations' = (pendingOperations \cup {rec.id}) \ {rec.id}
       /\ background' = Append(background,
                               [rec |-> rec, st |-> "sent",
                                returned |-> DebouncedResult(rec)])
       /\ DebouncedSync(rec.sid)
       /\ UNCHANGED <<queueVars, phase, mutation, opSync, itemsAtStart,
                      extSyncs, serverCart, sessionId, toolActions,
                      chatVars, retry>>

DebouncedAddItem ==
    \E key \in Keys, qty \in 0..MaxQty, t \in Later :
        /\ DebouncedMutation(CartRecord("add", key, qty, t))
        /\ now' = t

\* removeItem, lines 233-265; lines 234-235 return early.
DebouncedRemoveItem ==
    \E key \in Keys, t \in Later :
        IF RemoveReturnsEarly(items, heap, key)
        THEN UNCHANGED vars
        ELSE /\ DebouncedMutation(CartRecord("remove", key, 0, t))
             /\ now' = t

\* updateQuantity, lines 267-306; lines 268-269 return early.
DebouncedUpdateQuantity ==
    \E key \in Keys, qty \in 0..MaxQty, t \in Later :
        IF UpdateReturnsEarly(items, heap, key)
        THEN UNCHANGED vars
        ELSE /\ DebouncedMutation(CartRecord("update", key, qty, t))
             /\ now' = t

DebouncedClearCart ==
    \E t \in Later :
        /\ DebouncedMutation(CartRecord("clear", "none", 0, t))
        /\ now' = t

\* debouncedSync, lines 79-83: the timer's callback, 2000 ms after the
\* timer was armed.
TimerFires ==
    \E t \in timers :
        /\ Len(extSyncs) < MaxSyncs
        /\ timers' = timers \ {t}
        /\ extSyncs' = IF Cardinality(pendingOperations) = 0
                       THEN SyncCartCall(t.sid, pendingOperations, extSyncs)
                       ELSE extSyncs
        /\ UNCHANGED <<queueVars, storeVars, serverCart, sessionId,
                       toolActions, now, syncTimeout, background, mutations,
                       chatVars, retry>>

\* The server handles one of the tool requests that were not awaited, in
\* any order: it applies it or not, and the call succeeds or fails.
BackgroundHandled ==
    \E i \in 1..Len(background), applied \in BOOLEAN,
       resp \in {"ok", "fail"} :
        /\ background[i].st = "sent"
        /\ serverCart' = IF applied
                         THEN ServerApply(serverCart, background[i].rec)
                         ELSE serverCart
        /\ background' = [background EXCEPT ![i].st = resp]
        /\ UNCHANGED <<queueVars, storeVars, extSyncs, sessionId,
                       toolActions, now, timers, syncTimeout, mutations,
                       chatVars, retry>>

\* The promise of such a tool request settles in the client: nothing is
\* chained on success, the catch handler runs on failure.
BackgroundSettles ==
    \E i \in 1..Len(background) :
        /\ background[i].st \in {"ok", "fail"}
        /\ LET its == IF background[i].st = "fail"
                      THEN BackgroundCatch(items, backup) ELSE items
               n == Normalize(its, backup, heap)
           IN /\ items' = n.items
              /\ heap' = n.heap
              /\ backup' = n.backup
        /\ background' = Without(background, i)
        /\ UNCHANGED <<queueVars, pendingOperations, phase, mutation, opSync,
                       itemsAtStart, extSyncs, serverCart, sessionId,
                       toolActions, now, timers, syncTimeout, mutations,
                       chatVars, retry>>

DebounceNext ==
    \/ DebouncedAddItem \/ DebouncedRemoveItem
    \/ DebouncedUpdateQuantity \/ DebouncedClearCart
    \/ TimerFires \/ BackgroundHandled \/ BackgroundSettles
    \/ ExtSyncCall \/ ExtSyncServer \/ ExtSyncResponse
    \/ EstablishSession

DebounceSpec == Init /\ [][DebounceNext]_vars

\* ------------------------------------------------------- the chat store

\* The UI actions handed to handleUIAction. params "none" stands for a
\* payload without params, toolName "none" for one without toolName; body
\* says whether the payload carries the field its type needs (prompt,
\* message, url).
UIActions ==
    {[type |-> "tool", toolName |-> "add_to_cart", params |-> "A",
      body |-> FALSE],
     [type |-> "tool", toolName |-> "get_products", params |-> "all",
      body |-> FALSE],
     [type |-> "tool", toolName |-> "get_cart", params |-> "none",
      body |-> FALSE],
     [type |-> "prompt", toolName |-> "none", params |-> "none",
      body |-> TRUE],
     [type |-> "link", toolName |-> "none", params |-> "none",
      body |-> TRUE],
     [type |-> "intent", toolName |-> "none", params |-> "none",
      body |-> TRUE]}

\* The readings of Date.now(), in milliseconds.
Instants == {1000, 1040, 1080, 1120, 2200}

\* `${type}-${toolName}-${JSON.stringify(params || {})}`: a missing toolName
\* prints as "undefined", missing params as "{}".
ActionKey(a) ==
    <<a.type,
      IF a.toolName = "none" THEN "undefined" ELSE a.toolName,
      IF a.params = "none" THEN "{}" ELSE a.params>>

IsCartAction(a) == a.toolName \in {"add_to_cart", "get_cart"}

ThrottleMs(a) ==
    IF IsCartAction(a) THEN CART_ACTION_THROTTLE_MS ELSE ACTION_THROTTLE_MS

\* recentActions.get(actionKey) || 0
LastActionTime(recent, key) ==
    IF key \in DOMAIN recent THEN recent[key] ELSE 0

Throttled(recent, a, t) ==
    t - LastActionTime(recent, ActionKey(a)) < ThrottleMs(a)

\* The clean-up loop: entries older than a second are deleted.
CleanUp(recent, t) ==
    [k \in {k \in DOMAIN recent : ~(t - recent[k] > RecentActionMaxAge)}
        |-> recent[k]]

\* recentActions.set(actionKey, now)
SetRecent(recent, key, t) ==
    [k \in DOMAIN recent \cup {key} |-> IF k = key THEN t ELSE recent[k]]

\* The branch of the try block the action takes.
Branch(a) ==
    CASE a.type = "tool" /\ a.toolName # "none" /\ a.params # "none"
            -> "tool"
      [] a.type = "prompt" /\ a.body -> "prompt"
      [] a.type = "notify" /\ a.body -> "notify"
      [] a.type = "link" /\ a.body -> "link"
      [] OTHER -> "unhandled"

\* What a branch without an await gives back; window.open may throw.
SyncStatuses(a) ==
    CASE Branch(a) = "notify" -> {"success"}
      [] Branch(a) = "link" -> {"success", "exception"}
      [] OTHER -> {"unhandled"}

\* What a branch with an await gives back once the server has answered:
\* the tool branch catches a failed request, sendMessage catches its own.
AsyncStatus(c) ==
    IF Branch(c.action) = "tool" /\ c.st = "fail" THEN "error" ELSE "success"

\* Variant: a refused call deletes the key as well.
ProcessingAfterRefusalDeletes(proc, key) == proc \ {key}

\* processingActions after a call returned 'blocked' or 'throttled': both
\* return before the try block, so its finally does not run.
ProcessingAfterRefusal(proc, key) == proc

\* Variant: the key is deleted on the success path only.
ProcessingAfterReturnOnSuccess(proc, key, status) ==
    IF status = "success" THEN proc \ {key} ELSE proc

\* processingActions after the try block was left: the finally deletes the
\* key whatever the outcome.
ProcessingAfterReturn(proc, key, status) == proc \ {key}

UICallsMade == Len(uiCalls) + Len(uiResults)

UIResult(key, status) == [key |-> key, status |-> status]

\* handleUIAction, up to its first await or, on the branches without one,
\* to its return.
HandleUIAction ==
    \E a \in UIActions, t \in {i \in Instants : i >= uiNow} :
        LET key == ActionKey(a)
            recent == SetRecent(CleanUp(recentActions, t), key, t)
        IN
        /\ UICallsMade < MaxUIActions
        /\ uiNow' = t
        /\ IF key \in processingActions
           THEN /\ uiResults' = Append(uiResults, UIResult(key, "blocked"))
                /\ processingActions' =
                       ProcessingAfterRefusal(processingActions, key)
                /\ UNCHANGED <<recentActions, uiCalls>>
           ELSE IF Throttled(recentActions, a, t)
           THEN /\ uiResults' = Append(uiResults, UIResult(key, "throttled"))
                /\ processingActions' =
                       ProcessingAfterRefusal(processingActions, key)
                /\ UNCHANGED <<recentActions, uiCalls>>
           ELSE IF Branch(a) \in {"tool", "prompt"}
           THEN /\ processingActions' = processingActions \cup {key}
                /\ recentActions' = recent
                /\ uiCalls' = Append(uiCalls,
                                     [key |-> key, action |-> a,
                                      st |-> "sent"])
                /\ UNCHANGED uiResults
           ELSE \E status \in SyncStatuses(a) :
                /\ processingActions' =
                       ProcessingAfterReturn(processingActions \cup {key},
                                             key, status)
                /\ recentActions' = recent
                /\ uiResults' = Append(uiResults, UIResult(key, status))
                /\ UNCHANGED uiCalls
        /\ UNCHANGED <<queueVars, storeVars, extSyncs, serverCart, sessionId,
                       toolActions, now, debounceVars, retry>>

\* The server handles the request of a suspended call and answers or fails;
\* an add_to_cart request it handled has changed its cart.
UIServerAnswers ==
    \E i \in 1..Len(uiCalls), applied \in BOOLEAN, resp \in {"ok", "fail"} :
        /\ uiCalls[i].st = "sent"
        /\ resp = "ok" => applied
        /\ serverCart' =
               IF applied /\ uiCalls[i].action.toolName = "add_to_cart"
               THEN ServerAdd(serverCart, uiCalls[i].action.params, 1)
               ELSE serverCart
        /\ uiCalls' = [uiCalls EXCEPT ![i].st = resp]
        /\ UNCHANGED <<queueVars, storeVars, extSyncs, sessionId,
                       toolActions, now, debounceVars, processingActions,
                       recentActions, uiResults, uiNow, retry>>

\* A suspended call resumes with the answer and returns; sendMessage has
\* stored the session id of a chat response.
UIActionReturns ==
    \E i \in 1..Len(uiCalls) :
        LET c == uiCalls[i]
            status == AsyncStatus(c)
        IN
        /\ c.st \in {"ok", "fail"}
        /\ sessionId' = IF Branch(c.action) = "prompt" /\ c.st = "ok"
                        THEN "s1" ELSE sessionId
        /\ processingActions' =
               ProcessingAfterReturn(processingActions, c.key, status)
        /\ uiResults' = Append(uiResults, UIResult(c.key, status))
        /\ uiCalls' = Without(uiCalls, i)
        /\ UNCHANGED <<queueVars, storeVars, extSyncs, serverCart,
                       toolActions, now, debounceVars, recentActions, uiNow,
                       retry>>

ChatNext == HandleUIAction \/ UIServerAnswers \/ UIActionReturns

ChatSpec == Init /\ [][ChatNext]_vars

\* Every request is answered or fails, and a continuation whose await has
\* settled runs.
LiveChatSpec ==
    /\ ChatSpec
    /\ WF_vars(UIServerAnswers)
    /\ WF_vars(UIActionReturns)

\* ------------------------------------------------------ retryWithBackoff

RECURSIVE Pow2(_)
\* Math.pow(2, n)
Pow2(n) == IF n = 0 THEN 1 ELSE 2 * Pow2(n - 1)

Min(a, b) == IF a < b THEN a ELSE b

\* Variant: the delay is not capped.
RetryDelayUncapped(baseDelay, attempt, maxDelay) == baseDelay * Pow2(attempt)

\* The delay after the failure of attempt `attempt`.
RetryDelay(baseDelay, attempt, maxDelay) ==
    Min(baseDelay * Pow2(attempt), maxDelay)

\* The loop head: the operation is invoked when attempt <= maxRetries, and
\* lastError is thrown when the loop is left. An error is named by the
\* invocation that raised it, 0 standing for the unassigned lastError.
RetryLoop(r) ==
    IF r.attempt <= r.maxRetries
    THEN [r EXCEPT !.st = "attempting", !.calls = @ + 1]
    ELSE [r EXCEPT !.st = "rejected",
                   !.result = Outcome("error", r.lastError)]

\* retryWithBackoff is called; it runs up to its first await, the first
\* invocation of the operation.
RetryWithBackoff ==
    \E m \in 0..MaxRetriesOpt, b \in 0..MaxBaseDelay, d \in 0..MaxDelayOpt :
        /\ retry.st = "idle"
        /\ retry' = RetryLoop([NoRetry EXCEPT !.maxRetries = m,
                                              !.baseDelay = b,
                                              !.maxDelay = d])
        /\ UNCHANGED <<queueVars, storeVars, extSyncs, serverCart, sessionId,
                       toolActions, now, debounceVars, chatVars>>

\* The operation's promise settles; a value is named by the invocation that
\* produced it.
RetryOperationSettles ==
    \E ok \in BOOLEAN :
        /\ retry.st = "attempting"
        /\ retry' =
              IF ok
              THEN [retry EXCEPT !.st = "resolved",
                                 !.result = Outcome("value", retry.calls)]
              ELSE IF retry.attempt = retry.maxRetries
              THEN [retry EXCEPT !.st = "rejected",
                                 !.lastError = retry.calls,
                                 !.result = Outcome("error", retry.calls)]
              ELSE [retry EXCEPT !.st = "waiting",
                                 !.lastError = retry.calls,
                                 !.delays =
                                     Append(@, RetryDelay(retry.baseDelay,
                                                          retry.attempt,
                                                          retry.maxDelay))]
        /\ UNCHANGED <<queueVars, storeVars, extSyncs, serverCart, sessionId,
                       toolActions, now, debounceVars, chatVars>>

\* The timer of the wait fires and the loop goes round.
RetryTimerFires ==
    /\ retry.st = "waiting"
    /\ retry' = RetryLoop([retry EXCEPT !.attempt = @ + 1])
    /\ UNCHANGED <<queueVars, storeVars, extSyncs, serverCart, sessionId,
                   toolActions, now, debounceVars, chatVars>>

RetryNext == RetryWithBackoff \/ RetryOperationSettles \/ RetryTimerFires

RetrySpec == Init /\ [][RetryNext]_vars

\* ------------------------------------------- the end-to-end scenario
\* Starting from an empty cart and a server that mirrors the mutations it
\* accepts, one caller adds a line, then sets its quantity, then removes it,
\* each call made once the previous one has settled; nobody else calls
\* syncCart or talks to the server.

\* item.price: every product has one price.
Price(key) == CASE key = "A" -> 10 [] key = "B" -> 25 [] OTHER -> 0

\* total, lines 32-34: the sum of price * quantity over the lines of items.
RECURSIVE Total(_, _)
Total(its, h) ==
    IF its = <<>> THEN 0
    ELSE Price(h[Head(its)].key) * h[Head(its)].qty + Total(Tail(its), h)

\* The previous call of the scenario has settled with a value.
Succeeded(op) == ~isProcessing /\ future[op] = <<Outcome("value", op)>>

ScenarioAddItem ==
    \E key \in Keys, qty \in 1..ScenarioMaxQty :
        /\ Len(ops) = 0
        /\ AddItemCall(key, qty, now, 1)

ScenarioUpdateQuantity ==
    \E key \in Keys, qty \in 1..ScenarioMaxQty :
        /\ Len(ops) = 1
        /\ Succeeded(1)
        /\ ~UpdateReturnsEarly(items, heap, key)
        /\ UpdateQuantityCall(key, qty, now, 2)

ScenarioRemoveItem ==
    \E key \in Keys :
        /\ Len(ops) = 2
        /\ Succeeded(2)
        /\ ~RemoveReturnsEarly(items, heap, key)
        /\ RemoveItemCall(key, now, 3)

\* The server applies exactly the mutations it answers with success.
MirrorHandlesMutation ==
    \E resp \in {"ok", "fail"} : ServerHandles(resp = "ok", resp)

ScenarioNext ==
    \/ ScenarioAddItem \/ ScenarioUpdateQuantity \/ ScenarioRemoveItem
    \/ MirrorHandlesMutation \/ MutationResponse
    \/ OpSyncServer \/ OpSyncResponse
    \/ EstablishSession \/ DrainResume

ScenarioSpec == Init /\ [][ScenarioNext]_vars

\* ------------------------------------------------- properties, AsyncQueue

Enqueued == 1..Len(ops)

WasCancelled(op) == Cancelled \in Range(future[op])

\* C1: at most one enqueued operation is mid-execution (work started and
\* not yet settled) at any moment.
MutualExclusion ==
    Cardinality({op \in Enqueued : work[op] = Running}) <= 1

\* C1 witness: an operation runs after another has settled, with a third
\* one enqueued behind it.
MutualExclusionWitness ==
    \E a, b \in Enqueued :
        /\ Settled(work[a])
        /\ work[b] = Running
        /\ queue # <<>>

\* C2: for A enqueued before B, A not cancelled: once B's work has begun,
\* A's work has begun and settled and A's future has been settled.
FifoOrder ==
    \A a, b \in Enqueued :
        (a < b /\ work[b] # Queued /\ ~WasCancelled(a))
            => (Settled(work[a]) /\ future[a] # <<>>)

\* C2 witness: the drain loop has just started B, which was waiting behind
\* A while A ran, and a later operation is still pending.
FifoOrderWitness ==
    \E a, b \in Enqueued :
        /\ a < b
        /\ Settled(work[a])
        /\ work[b] = Running
        /\ future[a] # <<>>
        /\ queue # <<>>

\* C3: when the work of an operation has rejected, the step that settles
\* its future rejects it with that same error, leaves the futures of the
\* pending operations alone and starts the next pending operation.
FailureIsolation ==
    [][\A op \in DOMAIN future :
          (work[op].st = "error" /\ future[op] = <<>> /\ future'[op] # <<>>)
              => /\ future'[op] = <<Outcome("error", op)>>
                 /\ \A p \in Range(queue) : future'[p] = future[p]
                 /\ queue # <<>> =>
                       /\ work'[Head(queue)] = Running
                       /\ queue' = Tail(queue)
                       /\ isProcessing']_vars

\* C3 witness: an operation was rejected with its own error and a later
\* operation has been executed after it.
FailureIsolationWitness ==
    \E a, b \in Enqueued :
        /\ a < b
        /\ future[a] = <<Outcome("error", a)>>
        /\ work[b] # Queued

\* C4: a future is settled at most once, either with the outcome of its
\* own work (by the drain loop) or with the cancellation error (by clear,
\* and then its work never started).
SettledOnceOwnOutcome ==
    \A op \in Enqueued :
        \/ future[op] = <<>>
        \/ future[op] = <<work[op]>> /\ Settled(work[op]) /\ work[op].by = op
        \/ future[op] = <<Cancelled>> /\ work[op] = Queued

\* C4 witness: one future resolved by the loop, one rejected by the loop,
\* one cancelled by clear.
SettledOnceWitness ==
    \E a, b, c \in Enqueued :
        /\ future[a] = <<Outcome("value", a)>>
        /\ future[b] = <<Outcome("error", b)>>
        /\ future[c] = <<Cancelled>>

\* C5: every enqueued operation eventually settles, given that every
\* started work eventually resolves or rejects.
EventuallySettles ==
    \A op \in 1..MaxOps :
        [](Len(ops) >= op => <>(op \in DOMAIN future /\ future[op] # <<>>))

\* C5 witness: an operation was enqueued after the last work settled and
\* before the drain loop resumed.
EventuallySettlesWitness ==
    /\ queue = <<Len(ops)>>
    /\ \E a \in draining : Settled(work[a])

\* C6: clear() during an execution empties the pending sequence, rejects
\* each pending future with the cancellation error and touches nothing of
\* the operation being executed, whose future gets its own outcome.
ClearCancelsPending ==
    /\ [][(draining # {} /\ Len(queue') < Len(queue) /\ work' = work)
            => /\ queue' = <<>>
               /\ \A p \in Range(queue) :
                     future'[p] = Append(future[p], Cancelled)
               /\ \A p \in DOMAIN future \ Range(queue) :
                     future'[p] = future[p]
               /\ work' = work
               /\ draining' = draining
               /\ isProcessing' = isProcessing
               /\ activeOperation' = activeOperation]_vars
    /\ [](\A op \in Enqueued :
            (Settled(work[op]) /\ future[op] # <<>>)
                => future[op] = <<work[op]>>)

\* C6 witness: clear() has just cancelled two pending operations while a
\* third one is executing.
ClearCancelsWitness ==
    /\ queue = <<>>
    /\ \E a \in draining : work[a] = Running
    /\ Cardinality({p \in Enqueued : future[p] = <<Cancelled>>}) >= 2

\* ------------------------------------------------- properties, cart store

\* The quantity a reader of items sees for a line, 0 if there is none.
QtyOf(its, h, key) ==
    IF FindIndex(its, h, key) = 0 THEN 0 ELSE h[its[FindIndex(its, h, key)]].qty

\* C7: when the server call of a cart mutation has rejected, the step that
\* rolls back leaves items equal, line by line and quantity by quantity,
\* to what items was when the operation began.
RollbackRestores ==
    [][(phase = "mutate" /\ mutation = "fail" /\ phase' # "mutate")
          => View(items', heap') = itemsAtStart]_vars

\* C8: when the server call of a cart mutation fails, items at the moment
\* the mutation's future settles equals the snapshot taken before the call.
\* Stated for the runs in which the follow-up resync replaced nothing (it
\* was skipped or its fetch failed), so that the rollback alone decides.
RollbackAtSettle ==
    (phase = "ended" /\ mutation = "fail" /\ opSync.st # "snapshot")
        => View(items, heap) = itemsAtStart

\* C9: right after a call of addItem returns, items already shows the
\* added line: a new line, or the existing line with its quantity
\* increased.
OptimisticVisible ==
    [][(Len(ops') = Len(ops) + 1 /\ ops'[Len(ops')].kind = "add")
          => QtyOf(items', heap', ops'[Len(ops')].key)
                = QtyOf(items, heap, ops'[Len(ops')].key)
                    + ops'[Len(ops')].qty]_vars

\* C10: while pendingOperations is non-empty no get_cart_state request is
\* issued by syncCart, and a response that arrives (for a request issued
\* earlier) leaves items and its line objects untouched.
NoOverwriteWhilePending ==
    [][(pendingOperations # {}
          /\ (extSyncs' # extSyncs \/ (phase = "sync" /\ phase' = "ended")))
          => /\ items' = items
             /\ heap' = heap
             /\ Len(extSyncs') <= Len(extSyncs)]_vars

\* C10 witness: a mutation's server call is still open and the answer to a
\* get_cart_state request issued before the mutation started is on its
\* way, carrying a snapshot that differs from items.
NoOverwriteWitness ==
    /\ pendingOperations # {}
    /\ phase = "mutate"
    /\ \E i \in 1..Len(extSyncs) :
          /\ extSyncs[i].st = "snapshot"
          /\ extSyncs[i].snap # View(items, heap)

\* C11: syncCart called while pendingOperations is non-empty is a no-op: it
\* issues no get_cart_state request and changes no field of the store.
\* Every step in which a syncCart call issues a request is therefore taken
\* with pendingOperations empty at the time of the call, and the call
\* itself writes no field of the store.
SyncSkipsWhilePending ==
    [][/\ Len(extSyncs') > Len(extSyncs)
            => pendingOperations = {} /\ UNCHANGED storeVars
       /\ (opSync' = Sent /\ opSync # Sent) => pendingOperations' = {}]_vars

\* C11 witness: a mutation's server call is open, the session id is known
\* and the caller of syncCart has room for a request: the call returns
\* early.
SyncSkipsWitness ==
    /\ pendingOperations # {}
    /\ phase = "mutate"
    /\ sessionId # NULL
    /\ Len(extSyncs) < MaxSyncs
    /\ View(items, heap) # serverCart

\* C12: the id of a cart mutation is in pendingOperations from the start of
\* its execution until the continuation of its server call has run, and is
\* removed then whether the call succeeded or failed; pendingOperations is
\* empty whenever no cart operation is executing (and during the follow-up
\* resync).
PendingTracksExecution ==
    /\ phase = "mutate" =>
          \E op \in draining :
              /\ CartOp(op)
              /\ work[op] = Running
              /\ pendingOperations = {ops[op].id}
    /\ phase # "mutate" => pendingOperations = {}
    /\ (\A op \in draining : ~CartOp(op) \/ work[op] # Running)
          => pendingOperations = {}

\* C12 witness: a second mutation is executing, with its id pending, after
\* a first one whose server call failed has ended.
PendingTracksWitness ==
    /\ phase = "mutate"
    /\ pendingOperations # {}
    /\ \E a \in Enqueued : CartOp(a) /\ work[a] = Outcome("error", a)

\* C13 as stated: enqueue never invokes the work of the operation inside
\* the enqueue call, whether the queue is idle or already draining.
EnqueueNeverInvokes ==
    [][Len(ops') = Len(ops) + 1
          => /\ work'[Len(ops')] = Queued
             /\ queue' = Append(queue, Len(ops'))]_vars

\* C13, amended: on a queue that is already draining, enqueue appends the
\* operation and invokes nothing; on an idle queue, enqueue starts the drain
\* loop, which shifts the operation and invokes its work (up to its first
\* await) before enqueue returns.
EnqueueInvokesWhenIdle ==
    [][Len(ops') = Len(ops) + 1
          => /\ future'[Len(ops')] = <<>>
             /\ isProcessing =>
                   /\ work'[Len(ops')] = Queued
                   /\ queue' = Append(queue, Len(ops'))
                   /\ UNCHANGED <<isProcessing, activeOperation, draining>>
             /\ ~isProcessing =>
                   /\ work'[Len(ops')] = Running
                   /\ queue' = queue
                   /\ queue = <<>>
                   /\ isProcessing'
                   /\ activeOperation' = ops'[Len(ops')].id
                   /\ draining' = draining \cup {Len(ops')}]_vars

\* C13 witness: an operation enqueued on the idle queue is running, and a
\* second one enqueued meanwhile is waiting.
EnqueueInvokesWitness ==
    /\ Len(ops) = 2
    /\ work[1] = Running
    /\ work[2] = Queued
    /\ queue = <<2>>
    /\ future = << <<>>, <<>> >>

\* C14, the queue-backed store: it has no timer.  Every cart mutation that
\* was given a session id issues its own get_cart_state request in the
\* step that handles the answer of its server call, whether or not further
\* mutations are waiting in the queue.
ResyncAfterEveryMutation ==
    [][\A op \in draining :
          (CartOp(op) /\ phase = "mutate" /\ phase' # "mutate")
              => IF ops[op].sid # NULL
                 THEN opSync' = Sent /\ phase' = "sync"
                 ELSE opSync' = opSync /\ phase' = "ended"]_vars

Failed(req) == req.st \in {"error", "malformed"}

\* C15: when the get_cart_state fetch of syncCart fails, or its response
\* carries no cart items array, the step that handles the response leaves
\* items and its line objects as they were, issues no further request, and
\* throws nothing: a cart operation whose follow-up resync failed settles
\* with the outcome of its own server call.
SyncFailureLeavesItems ==
    [][/\ \A i \in 1..Len(extSyncs) :
             (Failed(extSyncs[i]) /\ extSyncs' = Without(extSyncs, i))
                 => /\ items' = items
                    /\ heap' = heap
                    /\ opSync' = opSync
                    /\ UNCHANGED queueVars
       /\ (phase = "sync" /\ phase' # "sync" /\ Failed(opSync))
             => /\ items' = items
                /\ heap' = heap
                /\ extSyncs' = extSyncs
                /\ opSync' = opSync
                /\ \A op \in draining :
                      work'[op] = Outcome(IF mutation = "ok" THEN "value"
                                          ELSE "error", op)]_vars

\* C15 witness: a cart operation whose server call succeeded has ended
\* after its follow-up resync failed, the cart is not empty, and a syncCart
\* call from outside has received a response without an items array.
SyncFailureWitness ==
    /\ phase = "ended"
    /\ mutation = "ok"
    /\ opSync.st = "error"
    /\ items # <<>>
    /\ \E i \in 1..Len(extSyncs) : extSyncs[i].st = "malformed"

\* C16: after any sequence of addItem, removeItem, updateQuantity, clearCart
\* and rollbacks, every line of items has a quantity of at least 1.  Stated
\* for the carts that only these operations have written: without a
\* session id no resync has ever replaced items by a server snapshot.
QuantityAtLeastOne ==
    sessionId = NULL => \A i \in 1..Len(items) : heap[items[i]].qty >= 1

\* C17: updateQuantity(id, 0) removes the line from items, and
\* updateQuantity called for a line that is absent is a no-op: every
\* updateQuantity operation that enters the queue was called with its line
\* present, so a call with the line absent enqueues nothing, sends nothing
\* and changes no variable.
ZeroQuantityRemoves ==
    /\ [][(Len(ops') = Len(ops) + 1 /\ ops'[Len(ops')].kind = "update")
            => FindIndex(items, heap, ops'[Len(ops')].key) # 0]_vars
    /\ [](\A op \in draining :
            (ops[op].kind = "update" /\ ops[op].qty = 0 /\ phase = "mutate")
                => FindIndex(items, heap, ops[op].key) = 0)

\* C17 witness: updateQuantity(A, 0) is executing and has removed the line
\* that was there when it began; a second updateQuantity on A can be called
\* now and finds the line absent.
ZeroQuantityWitness ==
    /\ phase = "mutate"
    /\ Len(ops) < MaxCartOps
    /\ \E op \in draining :
          /\ ops[op].kind = "update"
          /\ ops[op].qty = 0
          /\ FindIndex(items, heap, ops[op].key) = 0
          /\ \E i \in 1..Len(itemsAtStart) :
                itemsAtStart[i].key = ops[op].key

\* The one line [key x qty].
OneLine(key, qty) == <<[key |-> key, qty |-> qty]>>

\* C18: in the end-to-end scenario, when the future of the successful
\* addItem(X, q) settles, items = [X x q] and total = p*q; when the future
\* of the following successful updateQuantity(X, q2) settles, items =
\* [X x q2] and total = p*q2; when the future of the following removeItem(X)
\* whose server call failed settles, items is what it was before the call,
\* [X x q2]; and nothing writes items between two calls.
EndToEndScenario ==
    /\ [][\A op \in draining :
            (future[op] = <<>> /\ future'[op] # <<>>) =>
               /\ (ops[op].kind \in {"add", "update"} /\ work[op].st = "value")
                     => /\ future'[op] = <<Outcome("value", op)>>
                        /\ View(items, heap) = OneLine(ops[op].key, ops[op].qty)
                        /\ Total(items, heap) = Price(ops[op].key) * ops[op].qty
               /\ (ops[op].kind = "remove" /\ work[op].st = "error")
                     => /\ future'[op] = <<Outcome("error", op)>>
                        /\ View(items, heap) = itemsAtStart
                        /\ Len(items) = 1
                        /\ heap[items[1]].key = ops[op].key
                        /\ Total(items, heap)
                              = Price(ops[op].key) * heap[items[1]].qty]_vars
    /\ [][(phase = "idle" /\ phase' = "idle")
            => View(items', heap') = View(items, heap)]_vars
    /\ [][(phase = "idle" /\ phase' = "mutate")
            => itemsAtStart' = View(items, heap)]_vars

\* C18 witness: the scenario has run to its end with a session id: the add
\* and the update succeeded, the removal failed, and the line is back with
\* the quantity of the update, which differs from the quantity added.
EndToEndWitness ==
    /\ Len(ops) = 3
    /\ sessionId # NULL
    /\ future[1] = <<Outcome("value", 1)>>
    /\ future[2] = <<Outcome("value", 2)>>
    /\ future[3] = <<Outcome("error", 3)>>
    /\ ops[3].kind = "remove"
    /\ View(items, heap) = OneLine("A", 2)
    /\ serverCart = OneLine("A", 2)
    /\ Total(items, heap) = 20

\* A cart operation is being executed by the queue.
Executing == \E op \in draining : CartOp(op) /\ work[op] = Running

RejectsAfterRollback ==
    [][\A op \in draining :
          (CartOp(op) /\ mutation = "fail"
             /\ future[op] = <<>> /\ future'[op] # <<>>)
              => /\ future'[op] = <<Outcome("error", op)>>
                 /\ ops[op].id \notin pendingOperations
                 /\ phase = "ended"
                 /\ opSync.st # "snapshot"
                       => View(items, heap) = itemsAtStart]_vars

\* A step in which a mutation of the debounced store runs.
MutationRuns == mutations' = mutations + 1

\* A step in which a timer of debouncedSync fires.
TimerFired == mutations' = mutations /\ timers' # timers

\* C14 as stated: a burst of mutations of the debounced store, each run
\* before the timer armed by the one before has fired, leaves one timer
\* armed, and when that timer fires exactly one get_cart_state request is
\* issued.
BurstOneRequest ==
    /\ [](Cardinality(timers) <= 1)
    /\ [][TimerFired => extSyncs' = Append(extSyncs, Sent)]_vars

\* C14, amended: a burst of mutations of the debounced store issues no
\* request while it lasts and leaves exactly one timer armed, which carries
\* the session id of the last mutation; when the timer fires, one
\* get_cart_state request is issued if that session id is set, and none if
\* it is not.
BurstAtMostOneRequest ==
    /\ [](Cardinality(timers) <= 1)
    /\ [][MutationRuns
            => /\ extSyncs' = extSyncs
               /\ \E t \in timers' :
                     /\ timers' = {t}
                     /\ t.sid = sessionId
                     /\ t.h = syncTimeout']_vars
    /\ [][TimerFired
            => \E t \in timers :
                  /\ timers' = {}
                  /\ extSyncs' = IF t.sid # NULL THEN Append(extSyncs, Sent)
                                 ELSE extSyncs]_vars

\* C14 witness: two mutations have run since the session id was set, one
\* timer is armed and no request has been issued yet.
BurstWitness ==
    /\ mutations = 2
    /\ Cardinality(timers) = 1
    /\ \A t \in timers : t.sid # NULL /\ t.h = 2
    /\ extSyncs = <<>>
    /\ Len(background) = 2

\* ------------------------------------- properties, AsyncQueue (continued)

\* C21: at most one drain loop is past the entry guard of processQueue at
\* any time, and it runs with isProcessing true; an enqueue made while
\* isProcessing is true only appends: it starts no loop and executes
\* nothing.
SingleDrainLoop ==
    /\ [](Cardinality(draining) <= 1)
    /\ [](draining # {} => isProcessing)
    /\ [][(isProcessing /\ Len(ops') > Len(ops))
            => /\ queue' = Append(queue, Len(ops'))
               /\ work' = Append(work, Queued)
               /\ draining' = draining
               /\ activeOperation' = activeOperation
               /\ isProcessing']_vars

\* C21 witness: two operations were enqueued while the loop was suspended
\* in a third one; both wait in the pending sequence.
SingleDrainLoopWitness ==
    /\ isProcessing
    /\ \E a \in draining : work[a] = Running /\ draining = {a}
    /\ Len(queue) = 2
    /\ \A p \in Range(queue) : work[p] = Queued

\* ------------------------------------- properties, cart store (continued)

\* The step is the continuation of the i-th outside syncCart, and it
\* assigns the snapshot it received to items.
AppliesSnapshot(i) ==
    /\ extSyncs[i].st = "snapshot"
    /\ SnapshotGuard(pendingOperations)
    /\ extSyncs' = Without(extSyncs, i)
    /\ View(items', heap') = extSyncs[i].snap

\* C22: a snapshot whose get_cart_state request was issued before a
\* mutation started is never applied to items after that mutation has
\* settled.  In the runs of EarlySyncSpec every outside request is issued
\* before every mutation starts, so a step that applies its snapshot must
\* find no mutation settled.
StaleSnapshotNeverApplied ==
    [][\A i \in 1..Len(extSyncs) :
          AppliesSnapshot(i)
              => \A op \in Enqueued : CartOp(op) => ~Settled(work[op])]_vars

\* C23: an operation cancelled by clear() is never invoked afterwards: its
\* work stays unstarted, the drain loop never holds it, and every step
\* that starts a cart mutation (backup, pending id, optimistic change,
\* tool request) starts one that was not cancelled.
CancelledNeverRuns ==
    /\ [](\A op \in Enqueued :
            WasCancelled(op)
                => /\ work[op] = Queued
                   /\ op \notin draining
                   /\ op \notin Range(queue)
                   /\ future[op] = <<Cancelled>>)
    /\ [][(mutation' = "sent" /\ mutation # "sent")
            => \E op \in draining' :
                  /\ Cancelled \notin Range(future'[op])
                  /\ work'[op] = Running
                  /\ pendingOperations' = {ops'[op].id}]_vars

\* C23 witness: a cart mutation was cancelled while another one was
\* executing, and the drain loop has since run to its end.
CancelledNeverRunsWitness ==
    /\ ~isProcessing
    /\ \E a, c \in Enqueued :
          /\ a < c
          /\ CartOp(a) /\ CartOp(c)
          /\ future[a] = <<work[a]>>
          /\ WasCancelled(c)
          /\ View(items, heap) # <<>>

\* An operation the drain loop is suspended in has settled and the loop is
\* about to take over.
ActiveSettled == \E op \in draining : Settled(work[op])

\* C24: after clear() during an execution isProcessing stays true until
\* the executing operation has settled: the flag is lowered only by the
\* step in which the loop resumes from a settled operation and finds the
\* pending sequence empty, and that step leaves the queue idle.  If
\* operations were enqueued meanwhile, the resuming loop starts the oldest
\* of them instead and stays draining.  A queue that is processing
\* eventually returns to idle.
ClearThenIdle ==
    /\ [][(isProcessing /\ ~isProcessing')
            => /\ ActiveSettled
               /\ queue = <<>>
               /\ queue' = <<>>
               /\ activeOperation' = NULL
               /\ draining' = {}]_vars
    /\ [][(ActiveSettled /\ draining' # draining)
            => IF queue = <<>>
               THEN ~isProcessing' /\ activeOperation' = NULL
               ELSE /\ isProcessing'
                    /\ draining' = {Head(queue)}
                    /\ work'[Head(queue)] = Running
                    /\ activeOperation' = ops'[Head(queue)].id
                    /\ queue' = Tail(queue)]_vars
    /\ [](\A op \in Enqueued : work[op] = Running => isProcessing)
    /\ [](isProcessing => <>(~isProcessing /\ queue = <<>>
                               /\ activeOperation = NULL))

\* C24 witness: clear() cancelled an operation while the first one was
\* executing; a third one, enqueued after the clear, is now executing and
\* the first has settled with its own outcome.
ClearThenIdleWitness ==
    /\ Len(ops) = 3
    /\ future[1] = <<work[1]>>
    /\ future[2] = <<Cancelled>>
    /\ work[3] = Running
    /\ isProcessing
    /\ activeOperation = ops[3].id

\* The number of get_cart_state requests that are open.
OpenRequests(own, ext) ==
    Cardinality({i \in 1..Len(ext) : ext[i] = Sent})
        + (IF own = Sent THEN 1 ELSE 0)

\* C25: the step that handles the answer of a mutation's server call,
\* success or failure, removes the mutation's id from pendingOperations
\* and then, if the mutation was given a session id, issues the
\* get_cart_state request of its resync; and whoever issues such a request
\* does so with pendingOperations empty.
ResyncFollowsSettle ==
    /\ [][\A op \in draining :
             (CartOp(op) /\ phase = "mutate" /\ phase' # "mutate"
                 /\ ops[op].sid # NULL)
                 => /\ mutation \in {"ok", "fail"}
                    /\ ops[op].id \in pendingOperations
                    /\ ops[op].id \notin pendingOperations'
                    /\ opSync # Sent
                    /\ opSync' = Sent
                    /\ phase' = "sync"]_vars
    /\ [][OpenRequests(opSync', extSyncs') > OpenRequests(opSync, extSyncs)
            => pendingOperations' = {}]_vars
    /\ [](opSync = Sent => pendingOperations = {})

\* C25 witness: the server call of a mutation failed, its id is gone from
\* pendingOperations and the request of its resync is open.
ResyncFollowsSettleWitness ==
    /\ phase = "sync"
    /\ mutation = "fail"
    /\ opSync = Sent
    /\ pendingOperations = {}
    /\ \E op \in draining : CartOp(op) /\ ops[op].sid # NULL

\* What a reader of items is to see after the local change of a mutation,
\* given what it saw before: the lines by value, in order.
LocalChange(rec, v) ==
    LET Others == SelectSeq(v, LAMBDA l : l.key # rec.key)
        SetTo(q(_)) == [i \in 1..Len(v) |->
                       IF v[i].key = rec.key
                       THEN [key |-> rec.key, qty |-> q(v[i].qty)]
                       ELSE v[i]]
    IN CASE rec.kind = "add" ->
              IF \E i \in 1..Len(v) : v[i].key = rec.key
              THEN SetTo(LAMBDA old : old + rec.qty)
              ELSE Append(v, [key |-> rec.key, qty |-> rec.qty])
         [] rec.kind = "remove" -> Others
         [] rec.kind = "update" ->
              IF rec.qty <= 0 THEN Others ELSE SetTo(LAMBDA old : rec.qty)
         [] rec.kind = "clear" -> <<>>

\* C26: the step in which a cart operation starts to execute changes items
\* as its kind says: add increases the quantity of the line with the same
\* (productId, variantId) or appends one new line, remove drops exactly the
\* line with the given id, update sets the quantity or drops the line when
\* the value is <= 0, clear empties items; every other line keeps its
\* content and its place among the others.
LocalChangeAsStated ==
    [][(mutation' = "sent" /\ mutation # "sent")
          => \E op \in draining' :
                /\ work'[op] = Running
                /\ View(items', heap')
                      = LocalChange(ops'[op], View(items, heap))]_vars

\* C26 witness: an add onto an existing line is executing while another
\* line sits behind it: the quantity became 2 and the other line kept its
\* content and place.
LocalChangeWitness ==
    /\ phase = "mutate"
    /\ mutation = "sent"
    /\ \E op \in draining :
          /\ ops[op].kind = "add"
          /\ ops[op].qty = 1
          /\ Len(items) = 2
          /\ View(items, heap)[1] = [key |-> ops[op].key, qty |-> 2]
          /\ View(items, heap)[2].qty = 1
          /\ itemsAtStart = <<[key |-> ops[op].key, qty |-> 1],
                              View(items, heap)[2]>>

\* The step is the continuation of a syncCart that received a snapshot
\* while no mutation was pending; snap is the snapshot.
SyncSucceeds(snap) ==
    /\ SnapshotGuard(pendingOperations)
    /\ \/ /\ phase = "sync" /\ phase' = "ended"
          /\ opSync = Request("snapshot", snap)
       \/ \E i \in 1..Len(extSyncs) :
             /\ extSyncs[i] = Request("snapshot", snap)
             /\ extSyncs' = Without(extSyncs, i)

\* The icon and color the claim gives to a line of that product id.
StaticMeta(productId) ==
    IF productId \in DOMAIN PRODUCT_META THEN PRODUCT_META[productId]
    ELSE GenericMeta

IdleExactlyWhenDone ==
    /\ [](~isProcessing
            => queue = <<>> /\ activeOperation = NULL /\ draining = {})
    /\ [](isProcessing
            => \E op \in draining :
                  /\ draining = {op}
                  /\ work[op] # Queued
                  /\ activeOperation = ops[op].id
                  /\ activeOperation # NULL)
    /\ \A op \in 1..MaxOps :
          (op \in Range(queue))
              ~> (op \in DOMAIN work
                    /\ (work[op] # Queued \/ WasCancelled(op)))

\* C28 witness: the queue is idle again after it has drained an operation
\* that was enqueued while another one was executing.
IdleExactlyWitness ==
    /\ ~isProcessing
    /\ queue = <<>>
    /\ activeOperation = NULL
    /\ Len(ops) = MaxOps
    /\ \A op \in Enqueued : future[op] = <<work[op]>>
    /\ \E op \in Enqueued : work[op].st = "error"

\* C29: pendingOperations never holds more than one id; a mutation takes
\* its backup with pendingOperations empty; and the backup holds no
\* unconfirmed change of another mutation: when a mutation starts right
\* after one whose server call failed and whose resync replaced nothing,
\* what it backs up is items as it was before the failed mutation (in the
\* runs of ChainSpec nothing else has written items meanwhile).
BackupFreeOfOtherChanges ==
    /\ [](Cardinality(pendingOperations) <= 1)
    /\ [][(mutation' = "sent" /\ mutation # "sent")
            => /\ pendingOperations = {}
               /\ Len(backup') = Len(items)
               /\ (mutation = "fail" /\ opSync.st # "snapshot")
                     => View(BackupOf(items), heap) = itemsAtStart]_vars

\* C30: the resync that follows a mutation runs inside the mutation's queue
\* operation.  Its request is open only while that operation is executing
\* in its resync phase; the operation's future settles, and the next
\* queued mutation starts, only when the resync is over (snapshot applied,
\* skipped or failed); and when the continuation of the resync runs, no
\* other mutation has started, so there is no optimistic change of a later
\* mutation for it to overwrite.
ResyncInsideOperation ==
    /\ [](opSync = Sent
            => /\ phase = "sync"
               /\ \E op \in draining :
                     CartOp(op) /\ work[op] = Running /\ future[op] = <<>>)
    /\ [][(mutation' = "sent" /\ mutation # "sent")
            => phase \in {"idle", "ended"} /\ opSync # Sent]_vars
    /\ [][\A op \in DOMAIN future :
             (CartOp(op) /\ work[op] # Queued /\ future[op] = <<>>
                 /\ future'[op] # <<>>)
                 => phase = "ended" /\ opSync # Sent]_vars
    /\ [][(phase = "sync" /\ phase' # "sync")
            => /\ phase' = "ended"
               /\ pendingOperations = {}
               /\ queue' = queue
               /\ \A p \in Range(queue) : work[p] = Queued]_vars

\* C30 witness: the snapshot of a mutation's resync has arrived and differs
\* from items, and the next mutation waits in the queue.
ResyncInsideWitness ==
    /\ phase = "sync"
    /\ opSync.st = "snapshot"
    /\ opSync.snap # View(items, heap)
    /\ queue # <<>>
    /\ CartOp(Head(queue))
    /\ work[Head(queue)] = Queued

\* No two elements of the sequence of lines have the same key.
DistinctKeys(v) ==
    \A i, j \in 1..Len(v) : v[i].key = v[j].key => i = j

\* C31: the server's snapshots hold no two lines with the same
\* (productId, variantId), and after any sequence of mutations, rollbacks
\* and resyncs neither does items.
NoDuplicateLines ==
    /\ DistinctKeys(serverCart)
    /\ \A i \in 1..Len(extSyncs) : DistinctKeys(extSyncs[i].snap)
    /\ DistinctKeys(opSync.snap)
    /\ DistinctKeys(View(items, heap))

\* C31 witness: the add of a new line has been rolled back and the resync
\* that followed has put a line of that key into items, next to another.
NoDuplicateWitness ==
    /\ phase = "ended"
    /\ mutation = "fail"
    /\ Len(items) = 2
    /\ \E op \in draining :
          /\ ops[op].kind = "add"
          /\ \A i \in 1..Len(itemsAtStart) :
                itemsAtStart[i].key # ops[op].key
          /\ FindIndex(items, heap, ops[op].key) > 0

\* C32: the step in which a queued removeItem or updateQuantity starts to
\* execute, and with it sends its remove_from_cart / set_cart_quantity
\* request, finds the line it names in items.
RequestOnlyForPresentLine ==
    [][(mutation' = "sent" /\ mutation # "sent")
          => \A op \in draining' :
                ops'[op].kind \in {"remove", "update"}
                    => FindIndex(items, heap, ops'[op].key) > 0]_vars

\* C33: an operation enqueued while another is executing does not start
\* before the work of that one has settled, whether or not clear() is
\* called in between: every step that starts a work is taken with no work
\* unsettled, and a step that cancels pending operations starts nothing
\* and leaves isProcessing as it is.
WaitsForActiveWork ==
    /\ [][\A p \in DOMAIN work :
             (work[p] = Queued /\ work'[p] = Running)
                 => \A a \in DOMAIN work : work[a] # Running]_vars
    /\ [][(\E p \in DOMAIN future :
              Cancelled \in Range(future'[p]) /\ ~WasCancelled(p))
            => /\ work' = work
               /\ draining' = draining
               /\ isProcessing' = isProcessing]_vars

\* C33 witness: clear() has cancelled the second operation while the first
\* is executing, and a third one, enqueued after the clear, waits.
WaitsForActiveWitness ==
    /\ Len(ops) = 3
    /\ work[1] = Running
    /\ future[2] = <<Cancelled>>
    /\ work[3] = Queued
    /\ queue = <<3>>
    /\ isProcessing

\* --------------------------- properties, debounced store (continued)

\* C34: in the debounced store no snapshot is applied to items by syncCart
\* while the tool request of a mutation is still outstanding.
NoSnapshotWhileOutstanding ==
    [][\A i \in 1..Len(extSyncs) :
          AppliesSnapshot(i) => background = <<>>]_vars

\* C35: in the debounced store a mutation has returned its success result
\* by the time its tool request is sent, and the step in which the
\* rejection of that request reaches the client changes nothing in items:
\* the optimistic change stays and the caller hears nothing.
RejectionKeepsChange ==
    /\ [](\A i \in 1..Len(background) : background[i].returned = "success")
    /\ [][\A i \in 1..Len(background) :
             (background[i].st = "fail"
                 /\ background' = Without(background, i))
                 => /\ View(items', heap') = View(items, heap)
                    /\ items' = items
                    /\ heap' = heap]_vars

\* C35 witness: the add_to_cart request of an addItem that has returned
\* success was rejected, the server holds nothing and the added line is in
\* items.
RejectionKeepsWitness ==
    /\ Len(background) = 1
    /\ background[1].st = "fail"
    /\ background[1].rec.kind = "add"
    /\ background[1].rec.qty = 1
    /\ background[1].returned = "success"
    /\ serverCart = <<>>
    /\ View(items, heap) = <<[key |-> background[1].rec.key, qty |-> 1]>>
    /\ backup = <<>>

\* A step in which handleUIAction was called with an action of key `key`:
\* the call either returned at once or suspended at its await.
UICallOf(key) ==
    \/ /\ uiCalls' = uiCalls
       /\ Len(uiResults') = Len(uiResults) + 1
       /\ uiResults'[Len(uiResults')].key = key
    \/ /\ uiResults' = uiResults
       /\ Len(uiCalls') = Len(uiCalls) + 1
       /\ uiCalls'[Len(uiCalls')].key = key

\* A step in which a handleUIAction call returned `status` at once.
UIRefusal(status) ==
    /\ uiCalls' = uiCalls
    /\ Len(uiResults') = Len(uiResults) + 1
    /\ uiResults'[Len(uiResults')].status = status

UIRunning(key) == \E i \in 1..Len(uiCalls) : uiCalls[i].key = key

\* C36: a handleUIAction call whose action key equals that of a call still
\* being processed returns 'blocked' and sends no server request, and a call
\* that returns 'blocked' or 'throttled' leaves processingActions as it was,
\* so the call still running keeps its hold.
BlockedKeepsHold ==
    /\ [][\A a \in UIActions :
            (UICallOf(ActionKey(a)) /\ UIRunning(ActionKey(a)))
                => /\ UIRefusal("blocked")
                   /\ serverCart' = serverCart]_vars
    /\ [][(UIRefusal("blocked") \/ UIRefusal("throttled"))
            => /\ processingActions' = processingActions
               /\ \A i \in 1..Len(uiCalls) :
                      uiCalls[i].key \in processingActions']_vars

\* A second identical add_to_cart was refused as blocked while the first is
\* still awaiting its answer and still holds the key.
BlockedKeepsWitness ==
    /\ Len(uiCalls) = 1
    /\ uiCalls[1].st = "sent"
    /\ uiCalls[1].action.toolName = "add_to_cart"
    /\ uiResults = <<UIResult(uiCalls[1].key, "blocked")>>
    /\ uiCalls[1].key \in processingActions

UIRunningKeys == {uiCalls[i].key : i \in 1..Len(uiCalls)}

UIReturned(status) ==
    \E i \in 1..Len(uiResults) : uiResults[i].status = status

\* C37: processingActions holds exactly the keys of the accepted
\* handleUIAction calls that have not returned yet, so it is empty when no
\* call is in progress, and every key in it is removed again: an identical
\* later action is not blocked forever.
HoldExactlyWhileRunning ==
    /\ [](processingActions = UIRunningKeys)
    /\ [](uiCalls = <<>> => processingActions = {})
    /\ \A a \in UIActions :
           (ActionKey(a) \in processingActions)
               ~> (ActionKey(a) \notin processingActions)

\* Three calls have returned, one with a server error, one with an
\* exception and one as unhandled, and nothing is held.
HoldExactlyWitness ==
    /\ uiCalls = <<>>
    /\ processingActions = {}
    /\ UIReturned("error")
    /\ UIReturned("exception")
    /\ UIReturned("unhandled")

\* C38: retryWithBackoff invokes the operation at most maxRetries + 1 times;
\* it resolves with the value of the first invocation that succeeds and
\* invokes nothing after it; it rejects only after maxRetries + 1 failed
\* invocations, with the error of the last one; and the wait before retry
\* n is min(baseDelay * 2^(n-1), maxDelay), which never decreases from one
\* retry to the next and never exceeds maxDelay.
RetryBounded ==
    /\ [](retry.calls <= retry.maxRetries + 1)
    /\ [](retry.st = "resolved"
            => /\ retry.result = Outcome("value", retry.calls)
               /\ retry.lastError = retry.calls - 1)
    /\ [](retry.st = "rejected"
            => /\ retry.calls = retry.maxRetries + 1
               /\ retry.result = Outcome("error", retry.calls))
    /\ [][retry.st \in {"resolved", "rejected"} => retry' = retry]_vars
    /\ [](retry.st \in {"attempting", "resolved", "rejected"}
            => Len(retry.delays) = retry.calls - 1)
    /\ [](\A n \in 1..Len(retry.delays) :
            /\ retry.delays[n] =
                   (IF retry.baseDelay * 2^(n - 1) < retry.maxDelay
                    THEN retry.baseDelay * 2^(n - 1) ELSE retry.maxDelay)
            /\ retry.delays[n] <= retry.maxDelay
            /\ n > 1 => retry.delays[n - 1] <= retry.delays[n])

\* All four attempts failed; the waits were 1 and 2, then 3, the cap.
RetryBoundedWitness ==
    /\ retry.st = "rejected"
    /\ retry.maxRetries = 3
    /\ retry.calls = 4
    /\ retry.delays = <<1, 2, 3>>
    /\ retry.result = Outcome("error", 4)

====
